---- MODULE Spec2Model ----
(***************************************************************************)
(* Hyperspectral normalization pipeline: scripts/export_spectra.py (the    *)
(* export stage) and scripts/self_check.py (the output-validating          *)
(* self-check), as one state machine over the files both work on.          *)
(*                                                                         *)
(* Numbers.  Raw reflectance (cube means, baselines) is an integer number  *)
(* of units; every normalized value is an integer number of thousandths    *)
(* (Milli) of a unit, so clip bounds 2.0 and 1.0 are 2000 and 1000 and the *)
(* 99.9th percentile of an integer vector is exact.  A quotient by         *)
(* eps = 1e-9 saturates at +-Huge, far beyond every clip bound.            *)
(*                                                                         *)
(* Precision.  spectral's img.load() returns float32 arrays, so a cube     *)
(* mean, a cloth reference and a freshly computed baseline are float32 and *)
(* a quotient of two of them is a float32: it carries fewer digits, here   *)
(* hundredths (SingleUlp).  pd.read_csv returns float64, so a quotient by  *)
(* a baseline read back from baseline_<sensor>.csv is a float64 and        *)
(* carries thousandths.                                                    *)
(*                                                                         *)
(* Range.  A float has a largest finite magnitude, FloatMax units here: a  *)
(* sum beyond it is inf, inf / inf and the minimum of nothing but NaN are  *)
(* NaN.  Cube means stay far below it; the vectors of SpecNorm reach it.   *)
(***************************************************************************)
EXTENDS Integers, Sequences, FiniteSets, TLC

\* ------------------------------------------------------------------ bounds
MaxRows == 2          \* rows of the metadata table
NB == 2               \* bands of every cube
MaxFaults == 1        \* unreadable cubes plus failed writes in one behaviour
MaxRuns == 2          \* export runs in one behaviour (SpecRerun)
MaxVecLen == 3        \* length of the vectors of SpecNorm
MaxCheckFiles == 4    \* spectrum files on disk in SpecCheck

\* ------------------------------------------------------- fixed-point units
Milli == 10 * 100
Huge == Milli * Milli * Milli
ClothMax == 2 * Milli               \* np.clip(..., 0, 2.0)
ZscoreMax == 1 * Milli              \* self_check: refl > 1.0
EpsInv == Huge                      \* 1 / eps, eps = 1e-9
SingleUlp == 2 * 5                  \* resolution of a float32 quotient, in Milli
FloatMax == 10 * Milli              \* largest finite float, in units
NaN == 0 - Huge - 1                 \* not a number: no computation on floats yields it

Max2(a, b) == IF a >= b THEN a ELSE b
Min2(a, b) == IF a <= b THEN a ELSE b

\* np.clip(v, lo, hi) is np.minimum(np.maximum(v, lo), hi), also when lo > hi
Clip(v, lo, hi) == Min2(Max2(v, lo), hi)

RECURSIVE SumSeq(_)
SumSeq(s) == IF s = <<>> THEN 0 ELSE Head(s) + SumSeq(Tail(s))

RECURSIVE Insert(_, _)
Insert(x, s) ==
    IF s = <<>> THEN <<x>>
    ELSE IF x <= Head(s) THEN <<x>> \o s
    ELSE <<Head(s)>> \o Insert(x, Tail(s))

RECURSIVE Sorted(_)
Sorted(s) == IF s = <<>> THEN <<>> ELSE Insert(Head(s), Sorted(Tail(s)))

SeqMax(s) == CHOOSE x \in {s[i] : i \in DOMAIN s} : \A j \in DOMAIN s : s[j] <= x
SeqMin(s) == CHOOSE x \in {s[i] : i \in DOMAIN s} : \A j \in DOMAIN s : x <= s[j]

\* np.percentile(s, 99.9), linear interpolation, in Milli; s is not empty
Percentile999(s) ==
        LET n == Len(s)
            x == Sorted(s)
            pos == 999 * (n - 1)
            lo == pos \div 1000
            fr == pos % 1000
        IN  IF fr = 0 THEN Milli * x[lo + 1]
            ELSE Milli * x[lo + 1] + fr * (x[lo + 2] - x[lo + 1])

\* np.clip(spec_s, 0, np.percentile(spec_s, 99.9)): the NONE policy
NonePolicy(s) ==
    LET p == IF s = <<>> THEN 0 ELSE Percentile999(s)
    IN  [b \in DOMAIN s |-> Clip(Milli * s[b], 0, p)]

\* sample / np.maximum(ref, eps), in Milli
QuotEps(x, r) ==
    IF r >= 1 THEN (Milli * x) \div r
    ELSE IF x > 0 THEN Huge ELSE IF x < 0 THEN -Huge ELSE 0

\* a float64 value q stored in an array of dtype dt
AsType(q, dt) == IF dt = "float32" THEN (q \div SingleUlp) * SingleUlp ELSE q

\* the quotient only floored at 0
NormalizeClothUnclipped(sample_spec, ref_spec) ==
    [b \in DOMAIN sample_spec |->
        Max2(AsType(QuotEps(sample_spec[b], ref_spec[b]), "float32"), 0)]

\* sample_spec and ref_spec are cube means: float32 / float32
_normalize_cloth(sample_spec, ref_spec) ==
    [b \in DOMAIN sample_spec |->
        Clip(AsType(QuotEps(sample_spec[b], ref_spec[b]), "float32"), 0, ClothMax)]

\* baseline_spec is the array with its dtype: float32 when computed in this run,
\* float64 when read from the baseline file; the quotient takes the wider of the two
_normalize_baseline(sample_spec, baseline_spec) ==
    [b \in DOMAIN sample_spec |->
        Clip(AsType(QuotEps(sample_spec[b], baseline_spec.spec[b]), baseline_spec.dtype),
             0, ClothMax)]

\* n^2 * variance of s: zero exactly when std < 1e-9 on integer data
VarNum(s) ==
    Len(s) * SumSeq([i \in DOMAIN s |-> s[i] * s[i]]) - SumSeq(s) * SumSeq(s)

CeilSqrt(v) == CHOOSE k \in 0..(v + 1) : k * k >= v /\ (k = 0 \/ (k - 1) * (k - 1) < v)
CeilDiv(a, b) == (a + b - 1) \div b

\* max_z - min_z < 1e-9, with z = (s - mean) / std and std = sqrt(VarNum) / n
ZRangeDegenerate(s) ==
    (SeqMax(s) - SeqMin(s)) * Len(s) < CeilDiv(CeilSqrt(VarNum(s)), EpsInv)

Abs(x) == IF x < 0 THEN -x ELSE x

\* np.nanmean(sample_spec) is inf: a partial sum leaves the finite range
MeanOverflows(s) == \E k \in DOMAIN s : Abs(SumSeq(SubSeq(s, 1, k))) > FloatMax

\* np.nanstd(sample_spec) is inf: the sum of squared deviations, VarNum / n, leaves
\* the finite range
StdOverflows(s) == VarNum(s) > FloatMax * Len(s)

\* mean inf: std is inf, (sample - mean) / std is NaN throughout, so are min_z and
\* max_z, both tests are False and NaN is returned.  std inf alone: z_spec is +-0,
\* its range 0, and 0.5 is returned
_normalize_zscore(s) ==
    IF s = <<>> THEN <<>>
    ELSE IF MeanOverflows(s) THEN [b \in DOMAIN s |-> NaN]
    ELSE IF VarNum(s) = 0 THEN [b \in DOMAIN s |-> 0]
    ELSE IF StdOverflows(s) \/ ZRangeDegenerate(s) THEN [b \in DOMAIN s |-> Milli \div 2]
    ELSE [b \in DOMAIN s |->
            (Milli * (s[b] - SeqMin(s))) \div (SeqMax(s) - SeqMin(s))]

\* ------------------------------------------------------------ export stage
Sensors == {"VISNIR", "SWIR"}
Timepoints == {"D0", "D1"}
BASELINE_RULE == "D0"                                \* config.BASELINE_RULE
ConfigModes == {"AUTO", "CLOTH", "BASELINE", "ZSCORE"}  \* config.NORM_MODE
Rows == [sensor : Sensors, timepoint : Timepoints, is_ref : {0, 1}]
MetaTables == UNION {[1..n -> Rows] : n \in 1..MaxRows}

\* hdr_path of row i of hsi_meta.csv (the table's unique key) is i
FileName == <<"a.hdr", "b.hdr", "c.hdr", "d.hdr", "e.hdr", "f.hdr">>

\* _mean_spectrum(_load_cube(p)[0]) of the cube stored at path p
CubeSpectrum(p) == [b \in 1..NB |-> 12 * (((p + 2 * b) % 5) - 1)]
\* the wavelength list _load_cube returns with it
Wavelengths == [b \in 1..NB |-> 400 + 100 * b]

\* a baseline array, or the content of a baseline file (refl_mean as read_csv
\* returns it: float64); None when there is none
None == [present |-> FALSE, spec |-> <<>>, dtype |-> ""]
Some(v) == [present |-> TRUE, spec |-> v, dtype |-> "float64"]
\* mean_baseline_spec: np.nanmean over float32 cube means
SomeSingle(v) == [present |-> TRUE, spec |-> v, dtype |-> "float32"]

VARIABLES
    NORM_MODE,      \* config.NORM_MODE
    meta,           \* rows of data_processed/hsi_meta.csv
    metaKind,       \* form of that file: "ok", "missing", "zerobyte", "nocols", "numsensor"
    broken,         \* paths whose cube _load_cube cannot read
    faultsLeft,     \* write failures still to come
    baselineFile,   \* sensor -> content of baseline_<sensor>.csv, None when absent
    specFile,       \* path -> content of <stem>_spectrum.csv, for the files that exist
    runLog,         \* reports/export_spectra_run.csv
    traceLog,       \* reports/trace_log.txt
    pc,             \* export main(): "idle", "baselines", "samples", "finish", "done", "aborted"
    samples,        \* main: samples (paths of the rows with is_ref = 0)
    todo,           \* main: sensors of all_sensors not yet visited
    baselines,      \* main: baselines
    idx,            \* main: position of the per-sample loop
    written,        \* main: written
    logs,           \* main: logs
    blLoads,        \* sensor -> cubes _get_baseline_spectrum loaded for it in this run
    blWrites,       \* sensors whose baseline file this run wrote
    steps,          \* per sample of this run: what the loop body did
    runs,           \* export runs started
    edits,          \* 1 once the operator changed something since the last run
    sc,             \* the self-check run: main() of self_check.py
    norm,           \* one call of a normalization function: its input and result
    prev            \* what the last finished export run left, and what was edited since

vars == <<NORM_MODE, meta, metaKind, broken, faultsLeft, baselineFile, specFile,
          runLog, traceLog, pc, samples, todo, baselines, idx, written, logs,
          blLoads, blWrites, steps, runs, edits, sc, norm, prev>>

\* no export run has finished yet
NoPrev == [baselines |-> <<>>, baselineFile |-> <<>>, specFile |-> <<>>,
           deleted |-> {}, changed |-> FALSE]

diskVars == <<baselineFile, specFile, runLog, traceLog>>
runVars == <<pc, samples, todo, baselines, idx, written, logs, blLoads, blWrites, steps,
            runs, edits, faultsLeft, prev>>
envVars == <<NORM_MODE, meta, metaKind, broken>>

FirstOf(S) == CHOOSE i \in S : \A j \in S : i <= j

\* the row positions of table df, in table order
Indices(df) == [i \in 1..Len(df) |-> i]

RECURSIVE Unique(_)
\* pandas unique(): first occurrences, in order
Unique(s) ==
    IF s = <<>> THEN <<>>
    ELSE LET u == Unique(SubSeq(s, 1, Len(s) - 1))
             x == s[Len(s)]
         IN  IF \E i \in DOMAIN u : u[i] = x THEN u ELSE Append(u, x)

\* the first cloth row of the sensor, whatever its timepoint
PickRefAnyCloth(df, row) ==
    LET any_cloth == {i \in DOMAIN df : df[i].sensor = row.sensor /\ df[i].is_ref = 1}
    IN  IF any_cloth # {} THEN FirstOf(any_cloth) ELSE 0

\* _pick_ref_cloth: hdr_path of the reference, 0 for None
_pick_ref_cloth(df, row) ==
    LET same_tp == {i \in DOMAIN df : /\ df[i].sensor = row.sensor
                                      /\ df[i].timepoint = row.timepoint
                                      /\ df[i].is_ref = 1}
        any_cloth == {i \in DOMAIN df : df[i].sensor = row.sensor /\ df[i].is_ref = 1}
    IN  IF same_tp # {} THEN FirstOf(same_tp)
        ELSE IF any_cloth # {} THEN FirstOf(any_cloth)
        ELSE 0

\* rows _get_baseline_spectrum averages: sensor, baseline timepoint, not a reference
BaselineSamples(meta_df, sensor) ==
    SelectSeq(Indices(meta_df), LAMBDA i : /\ meta_df[i].sensor = sensor
                                           /\ meta_df[i].timepoint = BASELINE_RULE
                                           /\ meta_df[i].is_ref = 0)

\* np.nanmean(np.array(all_specs), axis=0)
BandMean(paths) ==
    [b \in 1..NB |-> SumSeq([k \in DOMAIN paths |-> CubeSpectrum(paths[k])[b]]) \div Len(paths)]

\* one unreadable baseline cube making the whole baseline absent
ComputeAndPersistAllOrNothing(meta_df, sensor, file, unreadable) ==
    LET cand == BaselineSamples(meta_df, sensor)
    IN  IF cand = <<>> \/ \E k \in DOMAIN cand : cand[k] \in unreadable
        THEN [ret |-> None, file |-> file, loads |-> {cand[k] : k \in DOMAIN cand}, wrote |-> FALSE]
        ELSE [ret |-> SomeSingle(BandMean(cand)), file |-> Some(BandMean(cand)),
              loads |-> {cand[k] : k \in DOMAIN cand}, wrote |-> TRUE]

\* _get_baseline_spectrum, given the file's content and the unreadable cubes:
\* the value returned, the file afterwards, the cubes it loaded, whether it wrote.
\* ComputeAndPersist is its part after the existence check.
ComputeAndPersist(meta_df, sensor, file, unreadable) ==
    LET cand == BaselineSamples(meta_df, sensor)
        ok == SelectSeq(cand, LAMBDA p : p \notin unreadable)
    IN  IF ok = <<>>
        THEN [ret |-> None, file |-> file, loads |-> {cand[k] : k \in DOMAIN cand}, wrote |-> FALSE]
        ELSE [ret |-> SomeSingle(BandMean(ok)), file |-> Some(BandMean(ok)),
              loads |-> {cand[k] : k \in DOMAIN cand}, wrote |-> TRUE]

GetBaselineAlwaysRecompute(meta_df, sensor, file, unreadable) ==
    ComputeAndPersist(meta_df, sensor, file, unreadable)

_get_baseline_spectrum(meta_df, sensor, file, unreadable) ==
    IF file.present
    THEN [ret |-> Some(file.spec), file |-> file, loads |-> {}, wrote |-> FALSE]
    ELSE ComputeAndPersist(meta_df, sensor, file, unreadable)

\* ---- spectrum files: the '# Normalization mode used: <hdr>' line ("" when the
\* first line is no annotation), the column row ("none", "all", "missing" when a
\* required column is absent) and the data rows
NoFile == [exists |-> FALSE, hdr |-> "", cols |-> "none", rows |-> <<>>]
EmptyFile == [exists |-> TRUE, hdr |-> "", cols |-> "none", rows |-> <<>>]

\* one w.writerow([i, float(wav), float(val), sensor, timepoint, ref_file_used, norm_mode_used])
DataRow(i, val, r, ref_file_used, norm_mode_used) ==
    [band_idx |-> i - 1, wavelength_nm |-> Wavelengths[i], refl_norm |-> val,
     kind |-> IF val = NaN THEN "nan" ELSE "num",       \* float(val) printed and read back
     sensor |-> r.sensor, timepoint |-> r.timepoint, ref_file |-> ref_file_used,
     norm_mode_used |-> norm_mode_used]

\* main, lines 181-190: the mode resolved for a sample row
ResolveIgnoringCloth(mode_cfg, df, r, bl) ==
    IF mode_cfg = "AUTO"
    THEN IF bl[r.sensor].present THEN "BASELINE" ELSE "ZSCORE"
    ELSE mode_cfg

ResolveUnresolved(mode_cfg, df, r, bl) == mode_cfg

ResolveMode(mode_cfg, df, r, bl) ==
    IF mode_cfg = "AUTO"
    THEN IF _pick_ref_cloth(df, r) # 0 THEN "CLOTH"
         ELSE IF bl[r.sensor].present THEN "BASELINE"
         ELSE "ZSCORE"
    ELSE mode_cfg

\* main, lines 194-222: normalization of spec_s under the resolved mode; raised is
\* TRUE when loading the reference cube raises
ExecuteKeepingMode(resolved, df, r, spec_s, bl, unreadable) ==
    LET ref_hdr == _pick_ref_cloth(df, r)
        fallback == [raised |-> FALSE, spec_n |-> NonePolicy(spec_s), policy |-> "NONE",
                     ref_file_used |-> "NONE", norm_mode_used |-> resolved]
    IN  IF resolved = "CLOTH"
        THEN IF ref_hdr # 0
             THEN IF ref_hdr \in unreadable
                  THEN [raised |-> TRUE, spec_n |-> <<>>, policy |-> "",
                        ref_file_used |-> "NONE", norm_mode_used |-> "CLOTH"]
                  ELSE [raised |-> FALSE,
                        spec_n |-> _normalize_cloth(spec_s, CubeSpectrum(ref_hdr)),
                        policy |-> "CLOTH", ref_file_used |-> FileName[ref_hdr],
                        norm_mode_used |-> "CLOTH"]
             ELSE fallback
        ELSE IF resolved = "BASELINE"
        THEN IF bl[r.sensor].present
             THEN [raised |-> FALSE,
                   spec_n |-> _normalize_baseline(spec_s, bl[r.sensor]),
                   policy |-> "BASELINE", ref_file_used |-> "BASELINE_" \o r.sensor,
                   norm_mode_used |-> "BASELINE"]
             ELSE fallback
        ELSE IF resolved = "ZSCORE"
        THEN [raised |-> FALSE, spec_n |-> _normalize_zscore(spec_s), policy |-> "ZSCORE",
              ref_file_used |-> "ZSCORE", norm_mode_used |-> "ZSCORE"]
        ELSE fallback

\* execution looking for a cloth reference of the sample's own timepoint only
ExecuteSameTimepointCloth(resolved, df, r, spec_s, bl, unreadable) ==
    LET same_tp == {i \in DOMAIN df : /\ df[i].sensor = r.sensor
                                      /\ df[i].timepoint = r.timepoint
                                      /\ df[i].is_ref = 1}
        ref_hdr == IF same_tp # {} THEN FirstOf(same_tp) ELSE 0
        fallback == [raised |-> FALSE, spec_n |-> NonePolicy(spec_s), policy |-> "NONE",
                     ref_file_used |-> "NONE", norm_mode_used |-> "NONE"]
    IN  IF resolved = "CLOTH"
        THEN IF ref_hdr # 0
             THEN IF ref_hdr \in unreadable
                  THEN [raised |-> TRUE, spec_n |-> <<>>, policy |-> "",
                        ref_file_used |-> "NONE", norm_mode_used |-> "CLOTH"]
                  ELSE [raised |-> FALSE,
                        spec_n |-> _normalize_cloth(spec_s, CubeSpectrum(ref_hdr)),
                        policy |-> "CLOTH", ref_file_used |-> FileName[ref_hdr],
                        norm_mode_used |-> "CLOTH"]
             ELSE fallback
        ELSE IF resolved = "BASELINE"
        THEN IF bl[r.sensor].present
             THEN [raised |-> FALSE,
                   spec_n |-> _normalize_baseline(spec_s, bl[r.sensor]),
                   policy |-> "BASELINE", ref_file_used |-> "BASELINE_" \o r.sensor,
                   norm_mode_used |-> "BASELINE"]
             ELSE fallback
        ELSE IF resolved = "ZSCORE"
        THEN [raised |-> FALSE, spec_n |-> _normalize_zscore(spec_s), policy |-> "ZSCORE",
              ref_file_used |-> "ZSCORE", norm_mode_used |-> "ZSCORE"]
        ELSE [fallback EXCEPT !.norm_mode_used = resolved]

Execute(resolved, df, r, spec_s, bl, unreadable) ==
    LET ref_hdr == _pick_ref_cloth(df, r)
        fallback == [raised |-> FALSE, spec_n |-> NonePolicy(spec_s), policy |-> "NONE",
                     ref_file_used |-> "NONE", norm_mode_used |-> "NONE"]
    IN  IF resolved = "CLOTH"
        THEN IF ref_hdr # 0
             THEN IF ref_hdr \in unreadable
                  THEN [raised |-> TRUE, spec_n |-> <<>>, policy |-> "",
                        ref_file_used |-> "NONE", norm_mode_used |-> "CLOTH"]
                  ELSE [raised |-> FALSE,
                        spec_n |-> _normalize_cloth(spec_s, CubeSpectrum(ref_hdr)),
                        policy |-> "CLOTH", ref_file_used |-> FileName[ref_hdr],
                        norm_mode_used |-> "CLOTH"]
             ELSE fallback
        ELSE IF resolved = "BASELINE"
        THEN IF bl[r.sensor].present
             THEN [raised |-> FALSE,
                   spec_n |-> _normalize_baseline(spec_s, bl[r.sensor]),
                   policy |-> "BASELINE", ref_file_used |-> "BASELINE_" \o r.sensor,
                   norm_mode_used |-> "BASELINE"]
             ELSE fallback
        ELSE IF resolved = "ZSCORE"
        THEN [raised |-> FALSE, spec_n |-> _normalize_zscore(spec_s), policy |-> "ZSCORE",
              ref_file_used |-> "ZSCORE", norm_mode_used |-> "ZSCORE"]
        ELSE [fallback EXCEPT !.norm_mode_used = resolved]

\* main, lines 226-234: the file left behind when the write fails at step f
\* (0: no failure, 1: open, 2: annotation line, 3: column row, 3 + k: data row k)
WriteFileStaleHeader(old, f, r, e, resolved) ==
    LET all == [i \in DOMAIN e.spec_n |->
                    DataRow(i, e.spec_n[i], r, e.ref_file_used, e.norm_mode_used)]
    IN  IF f = 1 THEN old
        ELSE IF f = 2 THEN EmptyFile
        ELSE IF f = 3 THEN [EmptyFile EXCEPT !.hdr = resolved]
        ELSE [exists |-> TRUE, hdr |-> resolved, cols |-> "all",
              rows |-> IF f = 0 THEN all ELSE SubSeq(all, 1, f - 4)]

WriteFile(old, f, r, e, resolved) ==
    LET all == [i \in DOMAIN e.spec_n |->
                    DataRow(i, e.spec_n[i], r, e.ref_file_used, e.norm_mode_used)]
    IN  IF f = 1 THEN old
        ELSE IF f = 2 THEN EmptyFile
        ELSE IF f = 3 THEN [EmptyFile EXCEPT !.hdr = e.norm_mode_used]
        ELSE [exists |-> TRUE, hdr |-> e.norm_mode_used, cols |-> "all",
              rows |-> IF f = 0 THEN all ELSE SubSeq(all, 1, f - 4)]

WriteSteps == 0..(3 + NB)

\* the OK entry carrying the initial reference identifier of line 173
OkEntryInitialRef(p, r, e) ==
    [status |-> "OK", file |-> FileName[p], sensor |-> r.sensor, timepoint |-> r.timepoint,
     ref_file_used |-> "NONE", norm_mode_used |-> e.norm_mode_used, out_path |-> p]
OkEntry(p, r, e) ==
    [status |-> "OK", file |-> FileName[p], sensor |-> r.sensor, timepoint |-> r.timepoint,
     ref_file_used |-> e.ref_file_used, norm_mode_used |-> e.norm_mode_used, out_path |-> p]
ErrEntry(p, r, msg) ==
    [status |-> "ERR", file |-> FileName[p], sensor |-> r.sensor, timepoint |-> r.timepoint,
     ref_file_used |-> "-", norm_mode_used |-> msg, out_path |-> 0]

NormIdle == [pc |-> "off", op |-> "", sample |-> <<>>, ref |-> <<>>, out |-> <<>>]

ScIdle == [pc |-> "idle", status |-> "", exit |-> -1, errors |-> {}, warnings |-> {},
           meta_rows |-> 0, spectra_count |-> 0, modes |-> <<>>]

\* the baseline loop run once per sample instead of once per sensor
StartRunEverySample ==
    /\ pc = "idle"
    /\ metaKind = "ok"
    /\ LET smp == SelectSeq(Indices(meta), LAMBDA i : meta[i].is_ref = 0)
           all_sensors == [k \in DOMAIN smp |-> meta[smp[k]].sensor]
       IN  /\ samples' = smp
           /\ todo' = all_sensors
           /\ pc' = IF all_sensors = <<>> THEN "finish" ELSE "baselines"
    /\ written' = 0
    /\ logs' = <<>>
    /\ baselines' = [s \in Sensors |-> None]
    /\ idx' = 1
    /\ blLoads' = [s \in Sensors |-> {}]
    /\ blWrites' = {}
    /\ steps' = <<>>
    /\ runs' = runs + 1
    /\ edits' = 0
    /\ UNCHANGED <<envVars, diskVars, faultsLeft, sc, norm, prev>>

\* main, lines 148-158
StartRun ==
    /\ pc = "idle"
    /\ metaKind = "ok"
    /\ LET smp == SelectSeq(Indices(meta), LAMBDA i : meta[i].is_ref = 0)
           all_sensors == Unique([k \in DOMAIN smp |-> meta[smp[k]].sensor])
       IN  /\ samples' = smp
           /\ todo' = all_sensors
           /\ pc' = IF all_sensors = <<>> THEN "finish" ELSE "baselines"
    /\ written' = 0
    /\ logs' = <<>>
    /\ baselines' = [s \in Sensors |-> None]
    /\ idx' = 1
    /\ blLoads' = [s \in Sensors |-> {}]
    /\ blWrites' = {}
    /\ steps' = <<>>
    /\ runs' = runs + 1
    /\ edits' = 0
    /\ UNCHANGED <<envVars, diskVars, faultsLeft, sc, norm, prev>>

\* main, lines 148-149: FileNotFoundError
StartRunMissing ==
    /\ pc = "idle"
    /\ metaKind = "missing"
    /\ pc' = "aborted"
    /\ runs' = runs + 1
    /\ UNCHANGED <<envVars, diskVars, faultsLeft, samples, todo, baselines, idx, written,
                   logs, blLoads, blWrites, steps, edits, sc, norm, prev>>

\* main, lines 159-167: one pass of the loop over all_sensors
ComputeBaseline ==
    /\ pc = "baselines"
    /\ LET sensor == Head(todo)
           first_sample == samples[FirstOf({k \in DOMAIN samples :
                                               meta[samples[k]].sensor = sensor})]
           g == _get_baseline_spectrum(meta, sensor, baselineFile[sensor], broken)
       IN  IF first_sample \in broken
           THEN /\ baselines' = [baselines EXCEPT ![sensor] = None]
                /\ UNCHANGED <<baselineFile, blLoads, blWrites>>
           ELSE /\ baselines' = [baselines EXCEPT ![sensor] = g.ret]
                /\ baselineFile' = [baselineFile EXCEPT ![sensor] = g.file]
                /\ blLoads' = [blLoads EXCEPT ![sensor] = g.loads]
                /\ blWrites' = IF g.wrote THEN blWrites \cup {sensor} ELSE blWrites
    /\ todo' = Tail(todo)
    /\ pc' = IF Tail(todo) = <<>> THEN "samples" ELSE "baselines"
    /\ UNCHANGED <<envVars, specFile, runLog, traceLog, faultsLeft, samples, idx, written,
                   logs, steps, runs, edits, sc, norm, prev>>

\* a failure of one sample propagating out of main()
ProcessSampleAborting ==
    /\ pc = "samples"
    /\ \E f \in WriteSteps :
        LET p == samples[idx]
            r == meta[p]
            resolved == ResolveMode(NORM_MODE, meta, r, baselines)
            e == Execute(resolved, meta, r, CubeSpectrum(p), baselines, broken)
            failed == IF p \in broken THEN "load"
                      ELSE IF e.raised THEN "ref"
                      ELSE IF f # 0 THEN "write"
                      ELSE ""
        IN  /\ f # 0 => (faultsLeft > 0 /\ p \notin broken /\ ~e.raised)
            /\ faultsLeft' = IF f # 0 THEN faultsLeft - 1 ELSE faultsLeft
            /\ specFile' = IF failed \in {"load", "ref"} THEN specFile
                           ELSE [specFile EXCEPT ![p] = WriteFile(@, f, r, e, resolved)]
            /\ written' = IF failed = "" THEN written + 1 ELSE written
            /\ logs' = IF failed = "" THEN Append(logs, OkEntry(p, r, e)) ELSE logs
            /\ pc' = IF failed # "" THEN "aborted"
                     ELSE IF idx = Len(samples) THEN "finish" ELSE "samples"
            /\ steps' = Append(steps,
                    [path |-> p, failed |-> failed, f |-> f,
                     resolved |-> IF failed = "load" THEN "" ELSE resolved,
                     policy |-> IF failed = "load" THEN "" ELSE e.policy,
                     spec_n |-> IF failed = "load" THEN <<>> ELSE e.spec_n,
                     ref_file_used |-> IF failed = "load" THEN "NONE" ELSE e.ref_file_used,
                     norm_mode_used |-> IF failed = "load" THEN "NONE" ELSE e.norm_mode_used])
    /\ idx' = idx + 1
    /\ UNCHANGED <<envVars, baselineFile, runLog, traceLog, samples, todo, baselines,
                   blLoads, blWrites, runs, edits, sc, norm, prev>>

\* main, lines 170-242: one pass of the loop over samples; the write fails at step f
ProcessSample ==
    /\ pc = "samples"
    /\ \E f \in WriteSteps :
        LET p == samples[idx]
            r == meta[p]
            resolved == ResolveMode(NORM_MODE, meta, r, baselines)
            e == Execute(resolved, meta, r, CubeSpectrum(p), baselines, broken)
            failed == IF p \in broken THEN "load"
                      ELSE IF e.raised THEN "ref"
                      ELSE IF f # 0 THEN "write"
                      ELSE ""
        IN  /\ f # 0 => (faultsLeft > 0 /\ p \notin broken /\ ~e.raised)
            /\ faultsLeft' = IF f # 0 THEN faultsLeft - 1 ELSE faultsLeft
            /\ specFile' = IF failed \in {"load", "ref"} THEN specFile
                           ELSE [specFile EXCEPT ![p] = WriteFile(@, f, r, e, resolved)]
            /\ written' = IF failed = "" THEN written + 1 ELSE written
            /\ logs' = Append(logs, IF failed = "" THEN OkEntry(p, r, e)
                                    ELSE ErrEntry(p, r, failed))
            /\ steps' = Append(steps,
                    [path |-> p, failed |-> failed, f |-> f,
                     resolved |-> IF failed = "load" THEN "" ELSE resolved,
                     policy |-> IF failed = "load" THEN "" ELSE e.policy,
                     spec_n |-> IF failed = "load" THEN <<>> ELSE e.spec_n,
                     ref_file_used |-> IF failed = "load" THEN "NONE" ELSE e.ref_file_used,
                     norm_mode_used |-> IF failed = "load" THEN "NONE" ELSE e.norm_mode_used])
    /\ idx' = idx + 1
    /\ pc' = IF idx = Len(samples) THEN "finish" ELSE "samples"
    /\ UNCHANGED <<envVars, baselineFile, runLog, traceLog, samples, todo, baselines,
                   blLoads, blWrites, runs, edits, sc, norm, prev>>

\* main, lines 244-253
FinishRun ==
    /\ pc = "finish"
    /\ traceLog' = Append(traceLog, [kind |-> "export_spectra", status |-> "",
                                     written |-> written, meta_rows |-> 0,
                                     spectra_count |-> 0, modes |-> <<>>,
                                     norm_mode_config |-> NORM_MODE])
    /\ runLog' = logs
    /\ pc' = "done"
    /\ prev' = [baselines |-> baselines, baselineFile |-> baselineFile, specFile |-> specFile,
                deleted |-> {}, changed |-> FALSE]
    /\ UNCHANGED <<envVars, baselineFile, specFile, faultsLeft, samples, todo, baselines,
                   idx, written, logs, blLoads, blWrites, steps, runs, edits, sc, norm>>

\* ---- the operator, between runs
Rerun ==
    /\ pc = "done"
    /\ runs < MaxRuns
    /\ pc' = "idle"
    /\ UNCHANGED <<envVars, diskVars, faultsLeft, samples, todo, baselines, idx, written,
                   logs, blLoads, blWrites, steps, runs, edits, sc, norm, prev>>

DeleteBaseline ==
    /\ pc = "done"
    /\ runs < MaxRuns
    /\ edits = 0
    /\ \E s \in Sensors :
        /\ baselineFile[s].present
        /\ baselineFile' = [baselineFile EXCEPT ![s] = None]
        /\ prev' = [prev EXCEPT !.deleted = @ \cup {s}]
    /\ edits' = 1
    /\ UNCHANGED <<envVars, specFile, runLog, traceLog, faultsLeft, pc, samples, todo,
                   baselines, idx, written, logs, blLoads, blWrites, steps, runs, sc, norm>>

\* parse_inventory re-run on changed raw data: one row reads differently
ChangeMeta ==
    /\ pc = "done"
    /\ runs < MaxRuns
    /\ edits = 0
    /\ \E i \in DOMAIN meta, row \in Rows :
        /\ Cardinality({fld \in {"sensor", "timepoint", "is_ref"} : row[fld] # meta[i][fld]}) = 1
        /\ meta' = [meta EXCEPT ![i] = row]
    /\ edits' = 1
    /\ prev' = [prev EXCEPT !.changed = TRUE]
    /\ UNCHANGED <<NORM_MODE, metaKind, broken, diskVars, faultsLeft, pc, samples, todo,
                   baselines, idx, written, logs, blLoads, blWrites, steps, runs, sc, norm>>

\* ---- specifications
InitRun ==
    /\ pc = "idle"
    /\ samples = <<>>
    /\ todo = <<>>
    /\ baselines = [s \in Sensors |-> None]
    /\ idx = 1
    /\ written = 0
    /\ logs = <<>>
    /\ blLoads = [s \in Sensors |-> {}]
    /\ blWrites = {}
    /\ steps = <<>>
    /\ runs = 0
    /\ edits = 0
    /\ prev = NoPrev
    /\ runLog = <<>>
    /\ traceLog = <<>>
    /\ sc = ScIdle
    /\ norm = NormIdle

\* one export run on an empty output directory, with unreadable cubes and failing writes
Init ==
    /\ NORM_MODE \in ConfigModes
    /\ metaKind \in {"ok", "missing"}
    /\ meta \in IF metaKind = "ok" THEN MetaTables ELSE {<<>>}
    /\ broken \in {b \in SUBSET DOMAIN meta : Cardinality(b) <= MaxFaults}
    /\ faultsLeft = MaxFaults - Cardinality(broken)
    /\ baselineFile = [s \in Sensors |-> None]
    /\ specFile = [p \in DOMAIN meta |-> NoFile]
    /\ InitRun

Next == StartRun \/ StartRunMissing \/ ComputeBaseline \/ ProcessSample \/ FinishRun

Spec == Init /\ [][Next]_vars

\* repeated export runs, the operator deleting baseline files and the inventory
\* changing in between; every cube readable, every write succeeding
InitRerun ==
    /\ NORM_MODE \in ConfigModes
    /\ metaKind = "ok"
    /\ meta \in MetaTables
    /\ broken = {}
    /\ faultsLeft = 0
    /\ baselineFile = [s \in Sensors |-> None]
    /\ specFile = [p \in DOMAIN meta |-> NoFile]
    /\ InitRun

NextRerun ==
    \/ StartRun \/ ComputeBaseline \/ ProcessSample \/ FinishRun
    \/ Rerun \/ DeleteBaseline \/ ChangeMeta

SpecRerun == InitRerun /\ [][NextRerun]_vars

\* the export stage run again and again on the same metadata and cubes, some of
\* them unreadable, nothing deleted or changed in between
InitTwice ==
    /\ NORM_MODE \in ConfigModes
    /\ metaKind = "ok"
    /\ meta \in MetaTables
    /\ broken \in {b \in SUBSET DOMAIN meta : Cardinality(b) <= MaxFaults}
    /\ faultsLeft = 0
    /\ baselineFile \in [Sensors -> {None, Some(CubeSpectrum(1))}]
    /\ specFile = [p \in DOMAIN meta |-> NoFile]
    /\ InitRun

NextTwice == StartRun \/ ComputeBaseline \/ ProcessSample \/ FinishRun \/ Rerun

SpecTwice == InitTwice /\ [][NextTwice]_vars

\* --------------------------------------------------------------- self-check
RecordedModes == {"CLOTH", "BASELINE", "ZSCORE", "NONE"}
AllModes == RecordedModes \cup {"AUTO", "UNKNOWN"}
NoCounts == [m \in AllModes |-> 0]

\* one upper bound, 2.0, for every normalized mode
CheckFileOneBound(file) ==
    LET mode_from_header == IF file.hdr = "" THEN "UNKNOWN" ELSE file.hdr
        modes_in_col == Unique([i \in DOMAIN file.rows |-> file.rows[i].norm_mode_used])
        vals == file.rows
        norm_mode == modes_in_col[1]
        Outside(hi) == \E i \in DOMAIN vals : vals[i].refl_norm < 0 \/ vals[i].refl_norm > hi
    IN  IF file.cols = "none" THEN "crash"                       \* pd.read_csv: EmptyDataError
        ELSE IF file.cols = "missing" THEN "fail"
        ELSE IF Len(modes_in_col) # 1 \/ modes_in_col[1] # mode_from_header THEN "fail"
        ELSE IF \E i \in DOMAIN vals : vals[i].kind = "text" THEN "crash"   \* to_numpy: ValueError
        ELSE IF \E i \in DOMAIN vals : vals[i].kind # "num" THEN "fail"
        ELSE IF norm_mode \in {"CLOTH", "BASELINE"} /\ Outside(ClothMax) THEN "fail"
        ELSE IF norm_mode = "ZSCORE" /\ Outside(ClothMax) THEN "fail"
        ELSE "ok"

\* _validate_spectra, lines 114-146, on one file: "ok", "fail" (SelfCheckError) or
\* "crash" (an exception main() does not catch)
CheckFile(file) ==
    LET mode_from_header == IF file.hdr = "" THEN "UNKNOWN" ELSE file.hdr
        modes_in_col == Unique([i \in DOMAIN file.rows |-> file.rows[i].norm_mode_used])
        vals == file.rows
        norm_mode == modes_in_col[1]
        Outside(hi) == \E i \in DOMAIN vals : vals[i].refl_norm < 0 \/ vals[i].refl_norm > hi
    IN  IF file.cols = "none" THEN "crash"                       \* pd.read_csv: EmptyDataError
        ELSE IF file.cols = "missing" THEN "fail"
        ELSE IF Len(modes_in_col) # 1 \/ modes_in_col[1] # mode_from_header THEN "fail"
        ELSE IF \E i \in DOMAIN vals : vals[i].kind = "text" THEN "crash"   \* to_numpy: ValueError
        ELSE IF \E i \in DOMAIN vals : vals[i].kind # "num" THEN "fail"
        ELSE IF norm_mode \in {"CLOTH", "BASELINE"} /\ Outside(ClothMax) THEN "fail"
        ELSE IF norm_mode = "ZSCORE" /\ Outside(ZscoreMax) THEN "fail"
        ELSE "ok"

\* sorted(OUT_DIR.glob("*_spectrum.csv"))
SpectraFiles(files) == SelectSeq(Indices(files), LAMBDA p : files[p].exists)

RECURSIVE ValidateFrom(_, _, _, _)
\* the loop of _validate_spectra over the sorted files, from position k on
ValidateFrom(files, names, k, counts) ==
    IF k > Len(names) THEN [outcome |-> "ok", counts |-> counts]
    ELSE LET file == files[names[k]]
             res == CheckFile(file)
         IN  IF res # "ok" THEN [outcome |-> res, counts |-> counts]
             ELSE ValidateFrom(files, names, k + 1,
                               [counts EXCEPT ![file.rows[1].norm_mode_used] = @ + 1])

\* _validate_spectra
_validate_spectra(files) ==
    LET spectra_files == SpectraFiles(files)
    IN  IF Len(spectra_files) < 3 THEN [outcome |-> "fail", counts |-> NoCounts]
        ELSE ValidateFrom(files, spectra_files, 1, NoCounts)

\* _validate_meta, lines 82-95, after pd.read_csv returned
_validate_meta(kind, df) ==
    LET non_ref == SelectSeq(Indices(df), LAMBDA i : df[i].is_ref = 0)
        Count(sensor) == Cardinality({k \in DOMAIN non_ref : df[non_ref[k]].sensor = sensor})
    IN  IF df = <<>> THEN "fail"
        ELSE IF kind = "nocols" THEN "fail"
        ELSE IF non_ref = <<>> THEN "fail"
        ELSE IF kind = "numsensor" THEN "crash"            \* .str accessor: AttributeError
        ELSE IF ~(Count("VISNIR") > 0) \/ ~(Count("SWIR") > 0) THEN "fail"
        ELSE "ok"

ScUnchanged == UNCHANGED <<envVars, baselineFile, specFile, runLog, runVars, norm>>

\* main, lines 178-181
ScStart ==
    /\ sc.pc = "idle"
    /\ pc \in {"off", "done"}                   \* no export run in progress
    /\ sc' = [sc EXCEPT !.pc = "load_metadata"]
    /\ UNCHANGED traceLog
    /\ ScUnchanged

\* main, lines 188-190, and pd.read_csv of _validate_meta, line 81
ScLoadMetadata ==
    /\ sc.pc = "load_metadata"
    /\ sc' = [sc EXCEPT !.pc = IF metaKind = "missing" THEN "report_fail"
                              ELSE IF metaKind = "zerobyte" THEN "crashed"
                              ELSE "validate_metadata"]
    /\ UNCHANGED traceLog
    /\ ScUnchanged

\* _validate_meta, lines 82-102
ScValidateMetadata ==
    /\ sc.pc = "validate_metadata"
    /\ LET res == _validate_meta(metaKind, meta)
       IN  sc' = [sc EXCEPT !.pc = IF res = "ok" THEN "validate_outputs"
                                  ELSE IF res = "crash" THEN "crashed"
                                  ELSE "report_fail",
                            !.meta_rows = IF res = "ok" THEN Len(meta) ELSE 0]
    /\ UNCHANGED traceLog
    /\ ScUnchanged

\* _validate_spectra, called at line 193
ScValidateOutputs ==
    /\ sc.pc = "validate_outputs"
    /\ LET res == _validate_spectra(specFile)
       IN  sc' = [sc EXCEPT !.pc = IF res.outcome = "ok" THEN "policy_check"
                                  ELSE IF res.outcome = "crash" THEN "crashed"
                                  ELSE "report_fail",
                            !.spectra_count = IF res.outcome = "ok"
                                              THEN Len(SpectraFiles(specFile)) ELSE 0,
                            !.modes = res.counts]
    /\ UNCHANGED traceLog
    /\ ScUnchanged

\* main, lines 195-212
ScPolicyCheckLenient ==
    /\ sc.pc = "policy_check"
    /\ sc' = [sc EXCEPT !.pc = "report"]
    /\ UNCHANGED traceLog
    /\ ScUnchanged

\* the warning threshold taken as "at least 25%"
ScPolicyCheckInclusive ==
    /\ sc.pc = "policy_check"
    /\ LET total_files == sc.spectra_count
           zscore_files == sc.modes["ZSCORE"]
           errors ==
               (IF NORM_MODE = "CLOTH" /\ sc.modes["CLOTH"] = 0 THEN {"no CLOTH"} ELSE {})
               \cup (IF NORM_MODE = "BASELINE" /\ \A s \in Sensors : ~baselineFile[s].present
                     THEN {"no baseline file"} ELSE {})
           warnings ==
               IF NORM_MODE = "AUTO" /\ total_files > 0 /\ 4 * zscore_files >= total_files
               THEN {"ZSCORE fallback"} ELSE {}
       IN  sc' = [sc EXCEPT !.pc = IF errors # {} THEN "report_fail" ELSE "report",
                            !.errors = errors, !.warnings = warnings]
    /\ UNCHANGED traceLog
    /\ ScUnchanged

ScPolicyCheck ==
    /\ sc.pc = "policy_check"
    /\ LET total_files == sc.spectra_count
           zscore_files == sc.modes["ZSCORE"]
           errors ==
               (IF NORM_MODE = "CLOTH" /\ sc.modes["CLOTH"] = 0 THEN {"no CLOTH"} ELSE {})
               \cup (IF NORM_MODE = "BASELINE" /\ \A s \in Sensors : ~baselineFile[s].present
                     THEN {"no baseline file"} ELSE {})
           warnings ==
               IF NORM_MODE = "AUTO" /\ total_files > 0 /\ 4 * zscore_files > total_files
               THEN {"ZSCORE fallback"} ELSE {}
       IN  sc' = [sc EXCEPT !.pc = IF errors # {} THEN "report_fail" ELSE "report",
                            !.errors = errors, !.warnings = warnings]
    /\ UNCHANGED traceLog
    /\ ScUnchanged

TraceLine(status, meta_rows, spectra_count, modes) ==
    [kind |-> "self_check", status |-> status, written |-> 0, meta_rows |-> meta_rows,
     spectra_count |-> spectra_count, modes |-> modes, norm_mode_config |-> ""]

\* main, lines 214-231
ScReport ==
    /\ sc.pc = "report"
    /\ sc' = [sc EXCEPT !.pc = "done", !.status = "PASS", !.exit = 0]
    /\ traceLog' = Append(traceLog,
                          TraceLine("PASS", sc.meta_rows, sc.spectra_count, sc.modes))
    /\ ScUnchanged

\* main, lines 233-239
ScReportFail ==
    /\ sc.pc = "report_fail"
    /\ sc' = [sc EXCEPT !.pc = "done", !.status = "FAIL", !.exit = 1]
    /\ traceLog' = Append(traceLog, TraceLine("FAIL", 0, 0, <<>>))
    /\ ScUnchanged

\* ---- the files the self-check may find
CheckRowModes == {"CLOTH", "BASELINE", "ZSCORE", "NONE", "UNKNOWN"}
CheckRow(mode, kind, val) ==
    [band_idx |-> 0, wavelength_nm |-> Wavelengths[1], refl_norm |-> val, kind |-> kind,
     sensor |-> "VISNIR", timepoint |-> "D0", ref_file |-> "NONE", norm_mode_used |-> mode]
CheckRowKinds ==
    {CheckRow(m, "num", v) : m \in CheckRowModes,
                             v \in {-1, 0, Milli \div 2, ZscoreMax, ZscoreMax + 1,
                                    ClothMax, ClothMax + 1}}
    \cup {CheckRow(m, k, 0) : m \in CheckRowModes, k \in {"nan", "text"}}
GoodFiles ==
    {[exists |-> TRUE, hdr |-> m, cols |-> "all", rows |-> <<CheckRow(m, "num", Milli \div 2)>>] :
        m \in {"CLOTH", "ZSCORE", "NONE"}}
AnyFiles ==
    {NoFile, EmptyFile}
    \cup {[EmptyFile EXCEPT !.hdr = h] : h \in CheckRowModes}
    \cup {[exists |-> TRUE, hdr |-> h, cols |-> c, rows |-> <<r>>] :
            h \in CheckRowModes \cup {""}, c \in {"all", "missing"}, r \in CheckRowKinds}
    \cup {[exists |-> TRUE, hdr |-> h, cols |-> "all", rows |-> rs] :
            h \in CheckRowModes \cup {""},
            rs \in {<<>>} \cup {<<CheckRow(m1, "num", 1), CheckRow(m2, "num", 1)>> :
                                   m1 \in CheckRowModes, m2 \in CheckRowModes}}
CheckFileCounts == (MaxCheckFiles - 1)..MaxCheckFiles
ValidMeta ==
    <<[sensor |-> "VISNIR", timepoint |-> "D0", is_ref |-> 0],
      [sensor |-> "SWIR", timepoint |-> "D0", is_ref |-> 0]>>

InitOff ==
    /\ pc = "off"
    /\ samples = <<>>
    /\ todo = <<>>
    /\ baselines = [s \in Sensors |-> None]
    /\ idx = 1
    /\ written = 0
    /\ logs = <<>>
    /\ blLoads = [s \in Sensors |-> {}]
    /\ blWrites = {}
    /\ steps = <<>>
    /\ runs = 0
    /\ edits = 0
    /\ prev = NoPrev
    /\ faultsLeft = 0
    /\ broken = {}
    /\ runLog = <<>>
    /\ traceLog = <<>>

\* a self-check run on whatever the output directory holds: either any metadata
\* file with well-formed spectrum files, or well-formed metadata with spectrum
\* files of which one is arbitrary
InitCheck ==
    /\ NORM_MODE \in ConfigModes
    /\ \/ /\ metaKind \in {"ok", "missing", "zerobyte", "nocols", "numsensor"}
          /\ meta \in IF metaKind \in {"missing", "zerobyte"} THEN {<<>>}
                      ELSE MetaTables \cup {<<>>}
          /\ \E n \in CheckFileCounts, good \in GoodFiles : specFile = [i \in 1..n |-> good]
       \/ /\ metaKind = "ok"
          /\ meta = ValidMeta
          /\ \E n \in CheckFileCounts, adv \in AnyFiles, good \in GoodFiles :
                \E a \in 1..n : specFile = [i \in 1..n |-> IF i = a THEN adv ELSE good]
    /\ baselineFile \in {[s \in Sensors |-> None],
                         [s \in Sensors |-> IF s = "VISNIR" THEN Some(CubeSpectrum(1)) ELSE None]}
    /\ InitOff
    /\ sc = ScIdle
    /\ norm = NormIdle

NextCheck ==
    \/ ScStart \/ ScLoadMetadata \/ ScValidateMetadata \/ ScValidateOutputs
    \/ ScPolicyCheck \/ ScReport \/ ScReportFail

SpecCheck == InitCheck /\ [][NextCheck]_vars

\* ---- the pipeline: one export run on an empty output directory, every cube
\* readable and every write succeeding, then the self-check; or the self-check
\* on whatever the output directory holds
PipeTables == [1..(MaxRows + 1) -> Rows]

InitPipeline ==
    /\ NORM_MODE \in ConfigModes
    /\ metaKind = "ok"
    /\ meta \in PipeTables
    /\ broken = {}
    /\ faultsLeft = 0
    /\ baselineFile = [s \in Sensors |-> None]
    /\ specFile = [p \in DOMAIN meta |-> NoFile]
    /\ InitRun

NextPipeline ==
    \/ StartRun \/ ComputeBaseline \/ ProcessSample \/ FinishRun
    \/ ScStart \/ ScLoadMetadata \/ ScValidateMetadata \/ ScValidateOutputs
    \/ ScPolicyCheck \/ ScReport \/ ScReportFail

SpecPipeline == (InitPipeline \/ InitCheck) /\ [][NextPipeline]_vars

\* ------------------------------------------------- normalization functions
MaxAbs == 2           \* magnitude of the ordinary entries of the vectors of SpecNorm
MaxRefLen == 2        \* length of the sample/reference pairs of SpecNorm
SmallValues == (-MaxAbs)..MaxAbs
\* a finite magnitude beyond half the finite range
BigValue == 6 * Milli
VecValues == SmallValues \cup {-BigValue, BigValue}
Vectors == UNION {[1..n -> VecValues] : n \in 1..MaxVecLen}

\* main, lines 204, 214, 222: the fallback on one sample spectrum
NormNone ==
    /\ norm.pc = "in"
    /\ norm.op = "NONE"
    /\ norm' = [norm EXCEPT !.pc = "out", !.out = NonePolicy(norm.sample)]
    /\ UNCHANGED <<envVars, diskVars, runVars, sc>>

\* _normalize_cloth, lines 65-68, on a sample and a reference spectrum
NormCloth ==
    /\ norm.pc = "in"
    /\ norm.op = "CLOTH"
    /\ norm' = [norm EXCEPT !.pc = "out", !.out = _normalize_cloth(norm.sample, norm.ref.spec)]
    /\ UNCHANGED <<envVars, diskVars, runVars, sc>>

\* _normalize_baseline, lines 71-74, on a sample and a baseline array
NormBaseline ==
    /\ norm.pc = "in"
    /\ norm.op = "BASELINE"
    /\ norm' = [norm EXCEPT !.pc = "out", !.out = _normalize_baseline(norm.sample, norm.ref)]
    /\ UNCHANGED <<envVars, diskVars, runVars, sc>>

\* _normalize_zscore, lines 77-88, on a sample spectrum
NormZscore ==
    /\ norm.pc = "in"
    /\ norm.op = "ZSCORE"
    /\ norm' = [norm EXCEPT !.pc = "out", !.out = _normalize_zscore(norm.sample)]
    /\ UNCHANGED <<envVars, diskVars, runVars, sc>>

\* the calls: a sample alone, or a sample with a reference of its length
NormInputs ==
    [pc : {"in"}, op : {"NONE"}, sample : Vectors, ref : {<<>>}, out : {<<>>}]
    \cup [pc : {"in"}, op : {"ZSCORE"}, sample : Vectors, ref : {<<>>}, out : {<<>>}]
    \cup UNION {[pc : {"in"}, op : {"CLOTH"}, sample : [1..n -> SmallValues],
                 ref : {SomeSingle(v) : v \in [1..n -> SmallValues]}, out : {<<>>}] :
                n \in 1..MaxRefLen}
    \cup UNION {[pc : {"in"}, op : {"BASELINE"}, sample : [1..n -> SmallValues],
                 ref : {Some(v) : v \in [1..n -> SmallValues]}
                       \cup {SomeSingle(v) : v \in [1..n -> SmallValues]},
                 out : {<<>>}] :
                n \in 1..MaxRefLen}

InitNorm ==
    /\ norm \in NormInputs
    /\ NORM_MODE = "AUTO"
    /\ metaKind = "missing"
    /\ meta = <<>>
    /\ baselineFile = [s \in Sensors |-> None]
    /\ specFile = <<>>
    /\ InitOff
    /\ sc = ScIdle

NextNorm == NormNone \/ NormCloth \/ NormBaseline \/ NormZscore

SpecNorm == InitNorm /\ [][NextNorm]_vars

\* main, lines 226-234, for the spectrum a normalization call returned: the file
\* written with the call's mode as recorded mode, one row per element
NormFile ==
    [exists |-> TRUE, hdr |-> norm.op, cols |-> "all",
     rows |-> [i \in DOMAIN norm.out |->
                  [DataRow(1, norm.out[i], [sensor |-> "VISNIR", timepoint |-> "D0"],
                           norm.op, norm.op)
                   EXCEPT !.band_idx = i - 1, !.wavelength_nm = 400 + 100 * i]]]

\* ------------------------------------------------------------------ claims
\* the step of this run for sample path p went through (no failure)
StepOk(k) == steps[k].failed = ""
\* values of the data rows of a file
ReflOf(file) == [i \in DOMAIN file.rows |-> file.rows[i].refl_norm]
HasClothRow(df, sensor) == \E i \in DOMAIN df : df[i].is_ref = 1 /\ df[i].sensor = sensor
IsPrefix(a, b) == Len(a) <= Len(b) /\ \A i \in DOMAIN a : a[i] = b[i]

\* C1: a sample whose selected cloth reference cannot be loaded is still written,
\* with the NONE policy, recorded mode NONE and reference identifier NONE
C1_RefLoadFailureDegradesToNone ==
    \A k \in DOMAIN steps :
        LET p == steps[k].path
            ref == _pick_ref_cloth(meta, meta[p])
        IN  (steps[k].resolved = "CLOTH" /\ ref # 0 /\ ref \in broken /\ p \notin broken)
            => /\ specFile[p].exists
               /\ specFile[p].hdr = "NONE"
               /\ ReflOf(specFile[p]) = NonePolicy(CubeSpectrum(p))
               /\ logs[k].status = "OK"
               /\ logs[k].norm_mode_used = "NONE"
               /\ logs[k].ref_file_used = "NONE"

\* C2: every written sample has one recorded mode, the same in the annotation, the
\* rows and the run log; it is CLOTH, BASELINE, ZSCORE or NONE, never AUTO; and two
\* samples of one run with the same sensor and timepoint get the same mode
C2_RecordedModeTotalNeverAuto ==
    \A k \in DOMAIN steps :
        StepOk(k) =>
            LET p == steps[k].path
                file == specFile[p]
            IN  /\ file.exists
                /\ file.hdr \in RecordedModes
                /\ file.hdr = logs[k].norm_mode_used
                /\ \A i \in DOMAIN file.rows : file.rows[i].norm_mode_used \in RecordedModes
                /\ \A j \in DOMAIN steps :
                      (/\ StepOk(j)
                       /\ meta[steps[j].path].sensor = meta[p].sensor
                       /\ meta[steps[j].path].timepoint = meta[p].timepoint)
                      => specFile[steps[j].path].hdr = file.hdr

C2_Witness ==
    /\ NORM_MODE = "AUTO"
    /\ pc = "done"
    /\ \E j, k \in DOMAIN steps :
        /\ j # k /\ StepOk(j) /\ StepOk(k)
        /\ meta[steps[j].path].sensor = meta[steps[k].path].sensor
        /\ meta[steps[j].path].timepoint = meta[steps[k].path].timepoint
        /\ Len(specFile[steps[j].path].rows) = NB

\* C3: under AUTO the resolved mode is CLOTH when a cloth row of the sample's sensor
\* exists, else BASELINE when the sensor's precomputed baseline is present, else ZSCORE
C3_AutoPriorityChain ==
    NORM_MODE = "AUTO" =>
        \A k \in DOMAIN steps :
            steps[k].failed # "load" =>
                LET r == meta[steps[k].path]
                IN  steps[k].resolved =
                        IF HasClothRow(meta, r.sensor) THEN "CLOTH"
                        ELSE IF baselines[r.sensor].present THEN "BASELINE"
                        ELSE "ZSCORE"

C3_Witness ==
    /\ NORM_MODE = "AUTO"
    /\ \E j, k \in DOMAIN steps :
        /\ steps[j].resolved = "BASELINE"
        /\ steps[k].resolved = "ZSCORE"

\* C4: CLOTH configured without a cloth row of the sensor, or BASELINE configured
\* without the sensor's baseline: the sample is written with the NONE policy and
\* recorded as NONE with reference NONE; and a file records CLOTH or BASELINE only
\* when that normalization produced its values
C4_UnsatisfiableModeRecordedNone ==
    \A k \in DOMAIN steps :
        LET p == steps[k].path
            r == meta[p]
            file == specFile[p]
            unsat == \/ NORM_MODE = "CLOTH" /\ ~HasClothRow(meta, r.sensor)
                     \/ NORM_MODE = "BASELINE" /\ ~baselines[r.sensor].present
        IN  /\ (StepOk(k) /\ unsat) =>
                /\ file.exists /\ file.hdr = "NONE"
                /\ ReflOf(file) = NonePolicy(CubeSpectrum(p))
                /\ \A i \in DOMAIN file.rows :
                      file.rows[i].norm_mode_used = "NONE" /\ file.rows[i].ref_file = "NONE"
                /\ logs[k].norm_mode_used = "NONE" /\ logs[k].ref_file_used = "NONE"
            /\ (file.exists /\ file.hdr = "CLOTH") =>
                /\ HasClothRow(meta, r.sensor)
                /\ IsPrefix(ReflOf(file),
                        _normalize_cloth(CubeSpectrum(p),
                                         CubeSpectrum(_pick_ref_cloth(meta, r))))
            /\ (file.exists /\ file.hdr = "BASELINE") =>
                /\ baselines[r.sensor].present
                /\ IsPrefix(ReflOf(file),
                        _normalize_baseline(CubeSpectrum(p), baselines[r.sensor]))

C4_Witness ==
    /\ NORM_MODE = "CLOTH"
    /\ \E k \in DOMAIN steps :
        /\ StepOk(k)
        /\ ~HasClothRow(meta, meta[steps[k].path].sensor)
        /\ specFile[steps[k].path].hdr = "NONE"
        /\ Len(specFile[steps[k].path].rows) = NB

\* C6: a write that fails after the output file was opened leaves no spectrum file
\* of that sample on disk, and the sample gets an ERR entry
C6_WriteAllOrNothing ==
    \A k \in DOMAIN steps :
        (steps[k].failed = "write" /\ steps[k].f >= 2)
        => /\ ~specFile[steps[k].path].exists
           /\ logs[k].status = "ERR"

\* C7: in every spectrum file the annotated mode equals norm_mode_used of every data
\* row, also after a downgrade to NONE
C7_HeaderModeEqualsRowModes ==
    \A p \in DOMAIN specFile :
        \A i \in DOMAIN specFile[p].rows :
            specFile[p].rows[i].norm_mode_used = specFile[p].hdr

C7_Witness ==
    /\ NORM_MODE = "BASELINE"
    /\ \E k \in DOMAIN steps :
        /\ StepOk(k)
        /\ steps[k].resolved = "BASELINE"
        /\ specFile[steps[k].path].hdr = "NONE"
        /\ Len(specFile[steps[k].path].rows) = NB

SensorVisited(s) ==
    /\ pc \in {"baselines", "samples", "finish", "done"}
    /\ \E k \in DOMAIN samples : meta[samples[k]].sensor = s
    /\ \A k \in DOMAIN todo : todo[k] # s

\* a sensor whose baseline file existed at the call gets the file's content and
\* no cube is loaded for it
C10_ReturnedVerbatim ==
    \A s \in Sensors :
        (SensorVisited(s) /\ edits = 0 /\ baselineFile[s].present /\ s \notin blWrites)
        => /\ baselines[s] = Some(baselineFile[s].spec)
           /\ blLoads[s] = {}

C10_FileStep ==
    \A s \in Sensors :
        baselineFile[s].present =>
            \/ baselineFile'[s] = baselineFile[s]
            \/ ~baselineFile'[s].present /\ pc = "done" /\ pc' = "done"

\* C10: an existing baseline file is returned verbatim, no cube is loaded and the
\* file is not rewritten; its content changes only by being deleted between runs
C10_BaselineFileShortCircuits == []C10_ReturnedVerbatim /\ [][C10_FileStep]_vars

\* second run on a changed table: the file is kept although recomputing would differ
C10_Witness ==
    /\ runs = 2
    /\ pc = "done"
    /\ \E s \in Sensors :
        /\ SensorVisited(s)
        /\ baselineFile[s].present
        /\ s \notin blWrites
        /\ ComputeAndPersist(meta, s, None, broken).file # baselineFile[s]

\* C5: the NONE policy yields no negative value and no value above the sample's own
\* 99.9th percentile, for every finite sample vector
C5_NonePolicyWithinZeroAndPercentile ==
    (norm.pc = "out" /\ norm.op = "NONE") =>
        \A b \in DOMAIN norm.out :
            /\ norm.out[b] >= 0
            /\ norm.out[b] <= Percentile999(norm.sample)

\* a spectrum file whose rows carry several modes, or one mode that is not the
\* annotated one, or that has no annotation
InconsistentFile(file) ==
    LET modes == {file.rows[i].norm_mode_used : i \in DOMAIN file.rows}
    IN  /\ file.exists
        /\ file.cols = "all"
        /\ file.rows # <<>>
        /\ \/ Cardinality(modes) > 1
           \/ file.hdr = ""
           \/ \E m \in modes : m # file.hdr

\* C8: a self-check run that returns, over a directory holding a spectrum file with
\* inconsistent modes or without a mode annotation, returns with status FAIL
C8_InconsistentModeFails ==
    (sc.pc = "done"
        /\ \E p \in DOMAIN specFile : InconsistentFile(specFile[p]))
    => sc.status = "FAIL"

\* C9: the self-check never ends in an unhandled fault: it returns 0 or 1, and 1
\* with status FAIL for every validation problem
C9_NoUnhandledFault ==
    /\ sc.pc # "crashed"
    /\ sc.pc = "done" => /\ sc.exit \in {0, 1}
                         /\ sc.status = "FAIL" <=> sc.exit = 1

\* C11: a second export run on the same metadata and cubes, with no baseline file
\* deleted, leaves every spectrum file as the first run wrote it: same files, same
\* annotated mode, same rows
C11_SecondRunIdentical == [][runs >= 2 => specFile' = specFile]_vars

\* C12: after a sensor's baseline file was deleted and the export stage re-run on
\* unchanged metadata, every other sensor has the baseline file, the in-run baseline
\* value and the spectrum files it had before the deletion
C12_DeletionTouchesOneSensor ==
    (pc = "finish" /\ runs >= 2 /\ prev.deleted # {} /\ ~prev.changed) =>
        \A t \in Sensors \ prev.deleted :
            /\ baselineFile[t] = prev.baselineFile[t]
            /\ baselines[t] = prev.baselines[t]
            /\ \A p \in DOMAIN meta :
                  meta[p].sensor = t => specFile[p] = prev.specFile[p]

\* output validation of this self-check run succeeded
OutputsValidated == sc.spectra_count > 0
FilesUsing(mode) == {p \in DOMAIN specFile : specFile[p].exists /\ specFile[p].hdr = mode}

\* C13: a validated run with CLOTH configured and no spectrum file that used CLOTH,
\* or with BASELINE configured and no baseline file of any sensor, ends FAIL with
\* exit code 1; and an export run under CLOTH on a table without cloth rows writes
\* every sample as NONE, after which the self-check ends FAIL
C13_PolicyCheckFails ==
    /\ (sc.pc = "done" /\ OutputsValidated /\ NORM_MODE = "CLOTH" /\ FilesUsing("CLOTH") = {})
        => (sc.status = "FAIL" /\ sc.exit = 1)
    /\ (/\ sc.pc = "done" /\ OutputsValidated /\ NORM_MODE = "BASELINE"
        /\ \A s \in Sensors : ~baselineFile[s].present)
        => (sc.status = "FAIL" /\ sc.exit = 1)
    /\ (pc = "done" /\ NORM_MODE = "CLOTH" /\ \A i \in DOMAIN meta : meta[i].is_ref = 0)
        => /\ \A p \in DOMAIN meta : specFile[p].exists /\ specFile[p].hdr = "NONE"
           /\ sc.pc # "crashed"
           /\ sc.pc # "report"
           /\ sc.pc = "done" => (sc.status = "FAIL" /\ sc.exit = 1)

C13_Witness ==
    /\ pc = "done"
    /\ NORM_MODE = "CLOTH"
    /\ \A i \in DOMAIN meta : meta[i].is_ref = 0
    /\ FilesUsing("NONE") = DOMAIN meta
    /\ sc.pc = "done"
    /\ OutputsValidated
    /\ sc.errors = {"no CLOTH"}
    /\ sc.status = "FAIL"

ExistingFiles == {p \in DOMAIN specFile : specFile[p].exists}

\* C14: under AUTO a validated run ends PASS with exit code 0 whatever the share of
\* ZSCORE files, and it carries the warning exactly when more than 25% of the
\* validated files used ZSCORE
C14_ZscoreWarningNonFatal ==
    (NORM_MODE = "AUTO" /\ sc.pc = "done" /\ OutputsValidated) =>
        /\ sc.status = "PASS"
        /\ sc.exit = 0
        /\ sc.warnings # {}
            <=> 4 * Cardinality(FilesUsing("ZSCORE")) > Cardinality(ExistingFiles)

C14_Witness ==
    /\ NORM_MODE = "AUTO"
    /\ sc.pc = "done"
    /\ OutputsValidated
    /\ FilesUsing("ZSCORE") = ExistingFiles
    /\ sc.warnings # {}
    /\ sc.status = "PASS"

\* exactly a quarter of the files used ZSCORE
C14_QuarterCase ==
    /\ NORM_MODE = "AUTO"
    /\ sc.pc = "done"
    /\ OutputsValidated
    /\ 4 * Cardinality(FilesUsing("ZSCORE")) = Cardinality(ExistingFiles)
    /\ sc.warnings = {}

MetaValid == metaKind \notin {"missing", "zerobyte"} /\ _validate_meta(metaKind, meta) = "ok"
OutputsValid == _validate_spectra(specFile).outcome = "ok"

\* C15: a self-check run is at output validation only after metadata validation
\* succeeded and at the policy check only after output validation succeeded; it
\* ends in exactly one of PASS and FAIL, returning 0 exactly for PASS and 1 exactly
\* for FAIL
C15_StagesInOrder ==
    /\ sc.pc \in {"idle", "load_metadata", "validate_metadata", "validate_outputs",
                  "policy_check", "report", "report_fail", "done"}
    /\ sc.pc = "validate_outputs" => MetaValid
    /\ sc.pc \in {"policy_check", "report"} => (MetaValid /\ OutputsValid)
    /\ sc.pc = "report" => sc.errors = {}
    /\ sc.pc = "done" =>
        /\ sc.status \in {"PASS", "FAIL"}
        /\ sc.status = "PASS" <=> sc.exit = 0
        /\ sc.status = "FAIL" <=> sc.exit = 1
        /\ sc.status = "PASS" => (MetaValid /\ OutputsValid /\ sc.errors = {})

OutputsFailed == sc.pc \in {"report_fail", "done"} /\ sc.meta_rows > 0 /\ sc.spectra_count = 0
NonFinite(file) == \E i \in DOMAIN file.rows : file.rows[i].kind = "nan"
OutOfRange(file, hi) ==
    \E i \in DOMAIN file.rows :
        file.rows[i].kind = "num" /\ (file.rows[i].refl_norm < 0 \/ file.rows[i].refl_norm > hi)
\* a file that passes every check of output validation before the value checks
WellFormed(file) ==
    /\ file.cols = "all"
    /\ file.rows # <<>>
    /\ \A i \in DOMAIN file.rows :
          /\ file.rows[i].norm_mode_used = (IF file.hdr = "" THEN "UNKNOWN" ELSE file.hdr)
          /\ file.rows[i].kind # "text"
RangeViolation(file) ==
    \/ NonFinite(file)
    \/ file.hdr \in {"CLOTH", "BASELINE"} /\ OutOfRange(file, ClothMax)
    \/ file.hdr = "ZSCORE" /\ OutOfRange(file, ZscoreMax)

\* C16: output validation passes no file with a non-finite value, no CLOTH or
\* BASELINE file with a value outside [0, 2.0] and no ZSCORE file with a value outside
\* [0, 1]; and it fails well-formed files for their values in these cases only, so a
\* NONE file passes whatever its finite values
C16_RangeChecksByMode ==
    /\ OutputsValidated =>
          \A p \in ExistingFiles : ~RangeViolation(specFile[p])
    /\ (/\ OutputsFailed
        /\ Cardinality(ExistingFiles) >= 3
        /\ \A p \in ExistingFiles : WellFormed(specFile[p]))
        => \E p \in ExistingFiles : RangeViolation(specFile[p])

C16_Witness ==
    /\ sc.pc = "done"
    /\ OutputsValidated
    /\ \E p \in ExistingFiles :
          specFile[p].hdr = "NONE" /\ OutOfRange(specFile[p], ClothMax)
    /\ \E p \in ExistingFiles : specFile[p].hdr = "CLOTH"

\* the boundaries: a ZSCORE file with the value 1.0 passes, one with more fails
C16_BoundaryPass ==
    /\ OutputsValidated
    /\ \E p \in ExistingFiles :
          specFile[p].hdr = "ZSCORE" /\ specFile[p].rows[1].refl_norm = ZscoreMax
C16_BoundaryFail ==
    /\ OutputsFailed
    /\ \E p \in ExistingFiles :
          /\ WellFormed(specFile[p]) /\ specFile[p].hdr = "BASELINE"
          /\ specFile[p].rows[1].refl_norm = ClothMax + 1

\* resolution of the quotient a call returns, in Milli
UlpOf(n) == IF n.op = "CLOTH" \/ n.ref.dtype = "float32" THEN SingleUlp ELSE 1

\* C17: _normalize_cloth and _normalize_baseline return a vector of the sample's
\* length with every element in [0, 2.0]; where the reference exceeds eps and the
\* ratio lies in [0, 2.0] the element is sample / reference, and where the reference
\* is zero or negative it is sample / eps clipped: 2.0 for a positive sample, else 0
C17_ClothBaselineClipped ==
    (norm.pc = "out" /\ norm.op \in {"CLOTH", "BASELINE"}) =>
        /\ DOMAIN norm.out = DOMAIN norm.sample
        /\ \A b \in DOMAIN norm.out :
            LET x == norm.sample[b]
                r == norm.ref.spec[b]
                y == norm.out[b]
            IN  /\ y >= 0 /\ y <= ClothMax
                /\ (r >= 1 /\ x >= 0 /\ x <= 2 * r) =>
                        (r * y <= Milli * x /\ Milli * x < r * (y + UlpOf(norm)))
                /\ (r >= 1 /\ x < 0) => y = 0
                /\ (r >= 1 /\ x > 2 * r) => y = ClothMax
                /\ (r < 1) => y = (IF x > 0 THEN ClothMax ELSE 0)

C17_Witness ==
    /\ norm.pc = "out"
    /\ norm.op = "CLOTH"
    /\ \E a, b \in DOMAIN norm.out :
        /\ norm.ref.spec[a] <= 0 /\ norm.sample[a] > 0 /\ norm.out[a] = ClothMax
        /\ norm.ref.spec[b] = 2 /\ norm.sample[b] = 1 /\ norm.out[b] = Milli \div 2

\* C18: _normalize_zscore returns a vector with every element in [0, 1]: all zero
\* when the sample's standard deviation is below 1e-9, constant 0.5 when the
\* z-scored range is below 1e-9, otherwise the linear rescaling that takes the
\* sample's minimum to 0 and its maximum to 1
C18_ZscoreWithinUnitInterval ==
    (norm.pc = "out" /\ norm.op = "ZSCORE") =>
        LET s == norm.sample
            y == norm.out
            range == SeqMax(s) - SeqMin(s)
        IN  /\ DOMAIN y = DOMAIN s
            /\ \A b \in DOMAIN y : y[b] >= 0 /\ y[b] <= Milli
            /\ VarNum(s) = 0 => \A b \in DOMAIN y : y[b] = 0
            /\ (VarNum(s) > 0 /\ ZRangeDegenerate(s)) => \A b \in DOMAIN y : y[b] = Milli \div 2
            /\ (VarNum(s) > 0 /\ ~ZRangeDegenerate(s)) =>
                  \A b \in DOMAIN y :
                      /\ range * y[b] <= Milli * (s[b] - SeqMin(s))
                      /\ Milli * (s[b] - SeqMin(s)) < range * (y[b] + 1)

\* the ordinary case of C18: min to 0, max to 1, a value between them in between
C18_OrdinaryCase ==
    /\ norm.pc = "out"
    /\ norm.op = "ZSCORE"
    /\ \E a, b, c \in DOMAIN norm.out :
          norm.out[a] = 0 /\ norm.out[b] = Milli /\ norm.out[c] > 0 /\ norm.out[c] < Milli

\* row i of the table is a cloth reference of row r's sensor
ClothOf(i, r) == meta[i].is_ref = 1 /\ meta[i].sensor = r.sensor

\* C19: the reference picked for a sample is a cloth row of the sample's sensor: the
\* first one in table order with the sample's timepoint, or, when no cloth row of the
\* sensor has that timepoint, the first one in table order; none is picked exactly
\* when the sensor has no cloth row
C19_PickRefFirstMatch ==
    \A k \in DOMAIN steps :
        steps[k].resolved = "CLOTH" =>
            LET r == meta[steps[k].path]
                used == steps[k].ref_file_used
            IN  /\ used = "NONE" <=> ~\E i \in DOMAIN meta : ClothOf(i, r)
                /\ used # "NONE" =>
                    \E i \in DOMAIN meta :
                        /\ used = FileName[i]
                        /\ ClothOf(i, r)
                        /\ \A j \in DOMAIN meta :
                              (ClothOf(j, r) /\ j # i) =>
                                  \/ meta[i].timepoint = r.timepoint
                                        /\ (meta[j].timepoint = r.timepoint => i < j)
                                  \/ meta[i].timepoint # r.timepoint
                                        /\ meta[j].timepoint # r.timepoint /\ i < j

\* a later cloth row with the sample's timepoint is preferred to an earlier one without
C19_Witness ==
    \E k \in DOMAIN steps :
        LET r == meta[steps[k].path]
        IN  /\ steps[k].resolved = "CLOTH"
            /\ \E i, j \in DOMAIN meta :
                  /\ j < i
                  /\ ClothOf(i, r) /\ ClothOf(j, r)
                  /\ meta[i].timepoint = r.timepoint
                  /\ meta[j].timepoint # r.timepoint
                  /\ steps[k].ref_file_used = FileName[i]

\* of two cloth rows with the sample's timepoint the first is picked
C19_TieCase ==
    \E k \in DOMAIN steps :
        LET r == meta[steps[k].path]
        IN  /\ steps[k].resolved = "CLOTH"
            /\ \E i, j \in DOMAIN meta :
                  /\ i < j
                  /\ ClothOf(i, r) /\ ClothOf(j, r)
                  /\ meta[i].timepoint = meta[j].timepoint
                  /\ steps[k].ref_file_used = FileName[i]

\* C20: a sample that fails (cube or reference unreadable, write failure) does not
\* end the run: at the end the run log has exactly one entry, OK or ERR, for every
\* non-reference row, in table order; written counts the OK entries, and every OK
\* entry has the spectrum file of its sample on disk
C20_FailureNeverAbortsBatch ==
    /\ metaKind = "ok" => pc # "aborted"
    /\ pc = "samples" => (Len(logs) = idx - 1 /\ idx <= Len(samples))
    /\ pc \in {"finish", "done"} =>
        /\ {steps[k].path : k \in DOMAIN steps} = {i \in DOMAIN meta : meta[i].is_ref = 0}
        /\ \A j, k \in DOMAIN steps : j < k => steps[j].path < steps[k].path
        /\ Len(logs) = Len(steps)
        /\ \A k \in DOMAIN logs :
              /\ logs[k].status \in {"OK", "ERR"}
              /\ logs[k].file = FileName[steps[k].path]
              /\ logs[k].status = "ERR" <=> steps[k].failed # ""
              /\ logs[k].status = "OK" =>
                    (logs[k].out_path = steps[k].path /\ specFile[steps[k].path].exists)
        /\ written = Cardinality({k \in DOMAIN logs : logs[k].status = "OK"})
    /\ pc = "done" => runLog = logs

\* the first sample failed, the second was still written
C20_Witness ==
    /\ pc = "done"
    /\ Len(runLog) >= 2
    /\ runLog[1].status = "ERR"
    /\ runLog[2].status = "OK"
    /\ written = 1

\* no sensor is queued twice for the baseline loop, the loop is over before the
\* first sample, and every sample written as BASELINE holds the quotient by the
\* run's one baseline of its sensor
C21_ResolvedBeforeSamples ==
    /\ \A i, j \in DOMAIN todo : i # j => todo[i] # todo[j]
    /\ pc = "baselines" => (steps = <<>> /\ idx = 1)
    /\ pc \in {"samples", "finish", "done"} =>
        /\ todo = <<>>
        /\ \A k \in DOMAIN steps :
              (StepOk(k) /\ steps[k].norm_mode_used = "BASELINE") =>
                  LET p == steps[k].path
                      bl == baselines[meta[p].sensor]
                  IN  /\ bl.present
                      /\ steps[k].spec_n = _normalize_baseline(CubeSpectrum(p), bl)
                      /\ ReflOf(specFile[p]) = steps[k].spec_n

\* the baselines map and the baseline files change in the baseline loop only, one
\* sensor per pass
C21_ReadOnlyInLoop ==
    /\ pc # "baselines" => (baselines' = baselines /\ baselineFile' = baselineFile)
    /\ (pc = "baselines" /\ todo' # todo) =>
        /\ todo' = Tail(todo)
        /\ \A s \in Sensors \ {Head(todo)} :
              baselines'[s] = baselines[s] /\ baselineFile'[s] = baselineFile[s]

\* C21: every sensor's baseline is resolved at most once and before the first
\* sample; during the per-sample loop neither the baselines map nor a baseline file
\* changes, so the BASELINE samples of a sensor were divided by one baseline vector
C21_BaselineOncePerRun == []C21_ResolvedBeforeSamples /\ [][C21_ReadOnlyInLoop]_vars

C21_Witness ==
    /\ pc = "done"
    /\ blWrites # {}
    /\ \E j, k \in DOMAIN steps :
        /\ j # k /\ StepOk(j) /\ StepOk(k)
        /\ meta[steps[j].path].sensor = meta[steps[k].path].sensor
        /\ steps[j].norm_mode_used = "BASELINE" /\ steps[k].norm_mode_used = "BASELINE"
        /\ Len(specFile[steps[k].path].rows) = NB

\* the sensor's baseline rows of the table, and those of them whose cube loads
BaselineRows(s) ==
    {i \in DOMAIN meta : /\ meta[i].sensor = s
                          /\ meta[i].timepoint = BASELINE_RULE
                          /\ meta[i].is_ref = 0}
LoadedBaselineRows(s) == BaselineRows(s) \ broken

RECURSIVE BandSum(_, _)
BandSum(S, b) ==
    IF S = {} THEN 0
    ELSE LET p == CHOOSE x \in S : TRUE IN CubeSpectrum(p)[b] + BandSum(S \ {p}, b)

\* v is the band-wise mean of the cubes of S
IsBandMean(v, S) ==
    /\ DOMAIN v = 1..NB
    /\ \A b \in 1..NB : /\ Cardinality(S) * v[b] <= BandSum(S, b)
                         /\ BandSum(S, b) < Cardinality(S) * (v[b] + 1)

\* _get_baseline_spectrum was called for the sensor in this run
BaselineCalled(s) ==
    /\ SensorVisited(s)
    /\ samples[FirstOf({k \in DOMAIN samples : meta[samples[k]].sensor = s})] \notin broken

\* C22: with no baseline file, the call returns absent and writes nothing exactly
\* when no baseline row of the sensor yields a loaded cube; otherwise the unreadable
\* cubes are left out, the mean of the loaded ones is returned and the file written
C22_AbsentIffNothingLoaded ==
    \A s \in Sensors :
        BaselineCalled(s) =>
            /\ blLoads[s] = BaselineRows(s)
            /\ ~baselines[s].present <=> LoadedBaselineRows(s) = {}
            /\ LoadedBaselineRows(s) = {} =>
                    (baselines[s] = None /\ baselineFile[s] = None /\ s \notin blWrites)
            /\ LoadedBaselineRows(s) # {} =>
                    /\ IsBandMean(baselines[s].spec, LoadedBaselineRows(s))
                    /\ s \in blWrites
                    /\ baselineFile[s].present
                    /\ baselineFile[s].spec = baselines[s].spec

C22_Witness ==
    \E s \in Sensors :
        /\ BaselineCalled(s)
        /\ BaselineRows(s) \cap broken # {}
        /\ LoadedBaselineRows(s) # {}
        /\ baselineFile[s].present

\* the other side: every baseline cube of the sensor is unreadable
C22_AllFailedCase ==
    \E s \in Sensors :
        /\ BaselineCalled(s)
        /\ BaselineRows(s) # {}
        /\ LoadedBaselineRows(s) = {}
        /\ baselines[s] = None

\* the step of a self-check run that ends it in PASS or FAIL
ScEnds == sc.pc \in {"report", "report_fail"} /\ sc'.pc = "done"

\* C23: a self-check run ending in PASS or FAIL appends exactly one line to the
\* trace log, earlier lines untouched, and the line carries the status, the metadata
\* row count, the spectrum file count and the mode histogram the run observed
C23_TraceLineRecordsObserved ==
    [][ScEnds =>
          /\ Len(traceLog') = Len(traceLog) + 1
          /\ IsPrefix(traceLog, traceLog')
          /\ LET line == traceLog'[Len(traceLog')]
             IN  /\ line.kind = "self_check"
                 /\ line.status = sc'.status
                 /\ line.meta_rows = sc.meta_rows
                 /\ line.spectra_count = sc.spectra_count
                 /\ line.modes = sc.modes]_vars

\* the part about the log itself: one line more per ended run, nothing rewritten,
\* and no other self-check step touches the log
C23_AppendOnly ==
    [][/\ ScEnds => (Len(traceLog') = Len(traceLog) + 1 /\ IsPrefix(traceLog, traceLog')
                     /\ traceLog'[Len(traceLog')].status = sc'.status)
       /\ (sc' # sc /\ ~ScEnds) => traceLog' = traceLog]_vars

\* a run that counted the metadata rows and the files and then failed the policy check
C23_FailAfterCounting ==
    /\ sc.pc = "done" /\ sc.status = "FAIL"
    /\ sc.meta_rows > 0 /\ sc.spectra_count > 0
    /\ traceLog[Len(traceLog)].meta_rows = 0

AutoModes == {"CLOTH", "BASELINE", "ZSCORE"}

\* C24: under configured mode AUTO the mode resolved for a sample is the mode
\* recorded for it, one of CLOTH, BASELINE and ZSCORE; no file, row or OK entry of
\* the run says NONE and the NONE policy is never applied
C24_AutoNeverRecordsNone ==
    NORM_MODE = "AUTO" =>
        /\ \A k \in DOMAIN steps :
              steps[k].failed # "load" =>
                  /\ steps[k].resolved \in AutoModes
                  /\ steps[k].norm_mode_used = steps[k].resolved
                  /\ steps[k].policy \in {steps[k].resolved, ""}
                  /\ steps[k].resolved = "CLOTH" <=> HasClothRow(meta, meta[steps[k].path].sensor)
                  /\ steps[k].resolved = "BASELINE" => baselines[meta[steps[k].path].sensor].present
        /\ \A k \in DOMAIN steps :
              StepOk(k) =>
                  /\ specFile[steps[k].path].hdr \in AutoModes
                  /\ \A i \in DOMAIN specFile[steps[k].path].rows :
                        specFile[steps[k].path].rows[i].norm_mode_used \in AutoModes
        /\ \A k \in DOMAIN logs : logs[k].status = "OK" => logs[k].norm_mode_used \in AutoModes

\* a cloth reference of another timepoint found by resolution and by execution
C24_Witness ==
    /\ NORM_MODE = "AUTO"
    /\ \E k \in DOMAIN steps :
        /\ StepOk(k)
        /\ steps[k].norm_mode_used = "CLOTH"
        /\ Len(specFile[steps[k].path].rows) = NB
        /\ \A i \in DOMAIN meta :
              (meta[i].is_ref = 1 /\ meta[i].sensor = meta[steps[k].path].sensor)
                  => meta[i].timepoint # meta[steps[k].path].timepoint

\* AUTO resolving to BASELINE for one sample and to ZSCORE for another
C24_BaselineAndZscoreCase ==
    /\ NORM_MODE = "AUTO"
    /\ \E j, k \in DOMAIN steps :
        /\ StepOk(j) /\ StepOk(k)
        /\ steps[j].norm_mode_used = "BASELINE" /\ steps[k].norm_mode_used = "ZSCORE"

\* the reference identifier that goes with a recorded mode for a sample row
RefMatchesMode(ref, mode, r) ==
    /\ mode = "CLOTH" =>
            \E i \in DOMAIN meta : /\ meta[i].is_ref = 1
                                   /\ meta[i].sensor = r.sensor
                                   /\ ref = FileName[i]
    /\ mode = "BASELINE" => ref = "BASELINE_" \o r.sensor
    /\ mode = "ZSCORE" => ref = "ZSCORE"
    /\ mode = "NONE" => ref = "NONE"

\* C25: in every written spectrum file and its OK run-log entry the reference
\* identifier is the one of the recorded mode (a cloth row's file name of the same
\* sensor, BASELINE_<sensor>, ZSCORE or NONE), and all rows of the file carry the
\* sample's sensor and timepoint and one reference identifier and mode
C25_RefIdentifierFollowsMode ==
    \A k \in DOMAIN steps :
        StepOk(k) =>
            LET p == steps[k].path
                r == meta[p]
                file == specFile[p]
            IN  /\ logs[k].status = "OK"
                /\ logs[k].file = FileName[p]
                /\ logs[k].norm_mode_used = file.hdr
                /\ RefMatchesMode(logs[k].ref_file_used, logs[k].norm_mode_used, r)
                /\ Len(file.rows) = NB
                /\ \A i \in DOMAIN file.rows :
                      /\ file.rows[i].sensor = r.sensor
                      /\ file.rows[i].timepoint = r.timepoint
                      /\ file.rows[i].ref_file = logs[k].ref_file_used
                      /\ file.rows[i].norm_mode_used = logs[k].norm_mode_used

\* a cloth file naming the reference row's file
C25_Witness ==
    /\ pc = "done"
    /\ \E k \in DOMAIN steps :
        /\ StepOk(k)
        /\ logs[k].norm_mode_used = "CLOTH"
        /\ logs[k].ref_file_used = FileName[_pick_ref_cloth(meta, meta[steps[k].path])]
        /\ specFile[steps[k].path].rows[NB].ref_file = logs[k].ref_file_used

\* a file of the NONE policy
C25_NoneCase ==
    \E k \in DOMAIN steps :
        /\ StepOk(k)
        /\ logs[k].norm_mode_used = "NONE" /\ logs[k].ref_file_used = "NONE"
        /\ Len(specFile[steps[k].path].rows) = NB

\* a baseline file and a z-score file
C25_SyntheticTagsCase ==
    \E j, k \in DOMAIN steps :
        /\ StepOk(j) /\ StepOk(k)
        /\ logs[j].ref_file_used = "BASELINE_" \o meta[steps[j].path].sensor
        /\ logs[k].ref_file_used = "ZSCORE"

\* C26: every spectrum file the export writes from finite spectra with at least one
\* band passes the per-file checks of the self-check: columns, header mode equal to
\* the one row mode, finite values, values in the range of the recorded mode
C26_ProducerAuditorAgree ==
    (norm.pc = "out" /\ norm.out # <<>>) => CheckFile(NormFile) = "ok"

\* the same for the files of an export run over cubes of ordinary magnitude
C26_ExportedFilesPass ==
    \A k \in DOMAIN steps : StepOk(k) => CheckFile(specFile[steps[k].path]) = "ok"

\* a z-score file of an ordinary spectrum passing the checks
C26_OrdinaryCase ==
    /\ norm.pc = "out" /\ norm.op = "ZSCORE"
    /\ \E i \in DOMAIN norm.out : norm.out[i] = ZscoreMax
    /\ CheckFile(NormFile) = "ok"

====
